---- MODULE Spec2Model ----
(***************************************************************************)
(* BankSight (src/app.py): the Credit / Debit Simulation page and the      *)
(* generic CRUD page over one shared SQLite connection.  Every browser     *)
(* session runs the script in a thread of its own; st.session_state is     *)
(* per session, the connection (and so the database) is shared.            *)
(***************************************************************************)
EXTENDS Integers, Sequences, FiniteSets, TLC

(***************************************************************************)
(* Bounds of the model.                                                    *)
(***************************************************************************)
MaxSubmits == 2     \* Submit clicks processed in total
MaxClock == 1       \* the last second the wall clock reaches (it starts at second 1)
MaxCrudOps == 2     \* CRUD button clicks processed in total
MaxRows == 3        \* rows a table may hold before Insert is no longer tried
MaxApplies == 1     \* "Apply Filters" clicks processed in total

Sessions == {1, 2}

\* the session that works the CRUD page
CrudSessions == {1}

(***************************************************************************)
(* Values.  A SQLite cell is NULL, a REAL or a TEXT; a Python float may    *)
(* also be NaN.  Text is a sequence of one-character strings.              *)
(***************************************************************************)
NULL == [k |-> "null", n |-> 0, s |-> <<>>]
NaN == [k |-> "nan", n |-> 0, s |-> <<>>]
Real(n) == [k |-> "real", n |-> n, s |-> <<>>]
Text(s) == [k |-> "text", n |-> 0, s |-> s]

DigitChars == <<"0", "1", "2", "3", "4", "5", "6", "7", "8", "9">>
Digits == {DigitChars[i] : i \in 1..10}
LowerCase == {"a", "b"}

\* str.upper(), on the alphabet of the model
UpperChar(c) == IF c = "a" THEN "A" ELSE IF c = "b" THEN "B" ELSE c
Upper(s) == [i \in 1..Len(s) |-> UpperChar(s[i])]

\* str.isdigit(): non-empty and every character a digit
IsDigit(s) == Len(s) > 0 /\ \A i \in 1..Len(s) : s[i] \in Digits

\* str.strip(): leading and trailing whitespace removed
RECURSIVE LStrip(_)
LStrip(s) == IF s # <<>> /\ Head(s) = " " THEN LStrip(Tail(s)) ELSE s
RECURSIVE RStrip(_)
RStrip(s) == IF s # <<>> /\ s[Len(s)] = " " THEN RStrip(SubSeq(s, 1, Len(s) - 1)) ELSE s
Strip(s) == RStrip(LStrip(s))

\* the number a string of digits denotes
RECURSIVE DigitsValue(_)
DigitsValue(s) ==
    IF s = <<>> THEN 0
    ELSE 10 * DigitsValue(SubSeq(s, 1, Len(s) - 1))
         + ((CHOOSE i \in 1..10 : DigitChars[i] = s[Len(s)]) - 1)

\* datetime.now().strftime("%Y-%m-%d %H:%M:%S"): the clock, to the second, as text
RECURSIVE Decimal(_)
Decimal(t) ==
    IF t < 10 THEN <<DigitChars[t + 1]>>
    ELSE Decimal(t \div 10) \o <<DigitChars[(t % 10) + 1]>>
Strftime(t) == <<"t">> \o Decimal(t)

\* what datetime.now() may return, to the second, once it has returned t: the
\* same second, or the next one
ClockFrom(t) == {u \in {t, t + 1} : u <= MaxClock}

(***************************************************************************)
(* Schema.  The tables are created by DataFrame.to_sql, so they carry no   *)
(* PRIMARY KEY, UNIQUE, NOT NULL or FOREIGN KEY constraint; a column's     *)
(* affinity follows the CSV column's dtype.  accounts is the table the     *)
(* Credit / Debit page works on; codes stands for a table of one column,   *)
(* the case `cols[1:] if len(cols) > 1 else cols` provides for.            *)
(***************************************************************************)
Tables == {"accounts", "codes"}

get_columns(table) ==
    IF table = "accounts" THEN <<"customer_id", "account_balance", "last_updated">>
    ELSE <<"code">>

Affinity(table, c) == IF c = "account_balance" THEN "REAL" ELSE "TEXT"

\* What SQLite stores for a bound parameter: a str that is a well-formed number
\* (blanks around it allowed) becomes a REAL in a REAL column; NaN is stored as NULL.
Stored(table, c, v) ==
    IF v.k = "nan" THEN NULL
    ELSE IF Affinity(table, c) = "REAL" /\ v.k = "text" /\ IsDigit(Strip(v.s))
         THEN Real(DigitsValue(Strip(v.s)))
    ELSE v

VARIABLES
    db,                 \* table name -> sequence of rows (row: column -> value)
    now,                \* the wall clock, in seconds, when it was last read
    pc,                 \* per session: "idle", or "commit" between SELECT and UPDATE
    loc,                \* per session: the locals of its last Submit run
    msg,                \* per session: the st.error text of its last button run
    last_transaction,   \* st.session_state['last_transaction'], per session
    crud_updated,       \* st.session_state['crud_updated'], per session
    last_crud_result,   \* st.session_state['last_crud_result'], per session
    req,                \* per session: the locals of its last CRUD button run
    submits,            \* Submit clicks processed so far
    crudOps,            \* CRUD button clicks processed so far
    filter_page,        \* the Filter Data page: the widgets and result of its last Apply
    applies             \* "Apply Filters" clicks processed so far

vars == <<db, now, pc, loc, msg, last_transaction, crud_updated,
          last_crud_result, req, submits, crudOps, filter_page, applies>>

bankVars == <<pc, loc, last_transaction, submits>>
crudVars == <<last_crud_result, req, crudOps>>
filterVars == <<filter_page, applies>>


(***************************************************************************)
(* SQL statements, as the pages issue them through the shared connection.  *)
(***************************************************************************)
\* `col = ?` with a str parameter, on a TEXT column: NULL never matches
SqlEq(cell, param) == cell.k = "text" /\ cell.s = param

RECURSIVE WhereEq(_, _, _)
WhereEq(rows, col, param) ==
    IF rows = <<>> THEN <<>>
    ELSE (IF SqlEq(Head(rows)[col], param) THEN <<Head(rows)>> ELSE <<>>)
         \o WhereEq(Tail(rows), col, param)

\* run_query("SELECT * FROM <table> WHERE <col> = ?", [param])
run_query(table, col, param) == WhereEq(db[table], col, param)

\* UPDATE accounts SET account_balance = ?, last_updated = ? WHERE customer_id = ?
UpdateAccounts(rows, new_balance, stamp, acc_id) ==
    [i \in 1..Len(rows) |->
        IF SqlEq(rows[i]["customer_id"], acc_id)
        THEN [rows[i] EXCEPT !["account_balance"] = Stored("accounts", "account_balance", new_balance),
                             !["last_updated"] = Stored("accounts", "last_updated", Text(stamp))]
        ELSE rows[i]]

(***************************************************************************)
(* Credit / Debit Simulation page.                                         *)
(***************************************************************************)
MIN_BALANCE == 1000

Raised == [k |-> "raised", n |-> 0, s |-> <<>>]

\* float(df_acc.iloc[0]["account_balance"]): pandas hands a NULL over as NaN when
\* the column is numeric, as None otherwise; float(None) and float("x") raise.
PyFloat(df_acc) ==
    LET v == df_acc[1]["account_balance"]
        numeric == /\ \E i \in 1..Len(df_acc) : df_acc[i]["account_balance"].k = "real"
                   /\ \A i \in 1..Len(df_acc) : df_acc[i]["account_balance"].k \in {"real", "null"}
    IN  IF v.k = "real" THEN v
        ELSE IF v.k = "null" THEN (IF numeric THEN NaN ELSE Raised)
        ELSE IF IsDigit(Strip(v.s)) THEN Real(DigitsValue(Strip(v.s)))
        ELSE Raised

\* float arithmetic: NaN is absorbing, and every comparison with NaN is false
FAdd(x, a) == IF x.k = "nan" THEN NaN ELSE Real(x.n + a)
FSub(x, a) == IF x.k = "nan" THEN NaN ELSE Real(x.n - a)
FLess(x, y) == x.k = "real" /\ x.n < y

MsgNone == ""
MsgNoAccount == "No such account."
MsgAmount == "Amount must be greater than 0"
MsgInsufficient == "Could not complete the transaction since the balance goes below Rs. 1000"
MsgException == "exception"

\* `if current_balance - amount < 1000`
BelowMinimumLoose(current_balance, amount) == FLess(FSub(current_balance, amount), 0)
BelowMinimumStrict(current_balance, amount) ==
    FLess(FSub(current_balance, amount), MIN_BALANCE + 1)
BelowMinimum(current_balance, amount) == FLess(FSub(current_balance, amount), MIN_BALANCE)

\* `new_balance = current_balance + amount` / `new_balance = current_balance - amount`
NewBalanceSwapped(op, current_balance, amount) ==
    IF op = "Deposit" THEN FSub(current_balance, amount) ELSE FAdd(current_balance, amount)
NewBalance(op, current_balance, amount) ==
    IF op = "Deposit" THEN FAdd(current_balance, amount) ELSE FSub(current_balance, amount)

SubmitReportZeroOk(acc_id, df_acc, op, amount) ==
    IF acc_id = <<>> THEN MsgNone
    ELSE IF df_acc = <<>> THEN MsgNoAccount
    ELSE IF PyFloat(df_acc) = Raised THEN MsgException
    ELSE IF amount < 0 THEN MsgAmount
    ELSE IF op = "Deposit" THEN MsgNone
    ELSE IF BelowMinimum(PyFloat(df_acc), amount) THEN MsgInsufficient
    ELSE MsgNone

\* What a run of the page with Submit clicked reports before it writes:
\* an st.error text, or MsgNone when it goes on to the UPDATE.
SubmitReport(acc_id, df_acc, op, amount) ==
    IF acc_id = <<>> THEN MsgNone
    ELSE IF df_acc = <<>> THEN MsgNoAccount
    ELSE IF PyFloat(df_acc) = Raised THEN MsgException
    ELSE IF amount <= 0 THEN MsgAmount
    ELSE IF op = "Deposit" THEN MsgNone
    ELSE IF BelowMinimum(PyFloat(df_acc), amount) THEN MsgInsufficient
    ELSE MsgNone

WritesWhenFound(acc_id, df_acc, op, amount) ==
    /\ acc_id # <<>>
    /\ df_acc # <<>>
    /\ PyFloat(df_acc) # Raised
    /\ amount > 0

\* whether that run goes on to the UPDATE
Writes(acc_id, df_acc, op, amount) ==
    /\ acc_id # <<>>
    /\ df_acc # <<>>
    /\ SubmitReport(acc_id, df_acc, op, amount) = MsgNone

NoTransaction ==
    [type |-> "None", customer_id |-> <<>>, amount |-> 0, new_balance |-> NULL, timestamp |-> <<>>]

NoLocals ==
    [acc_id |-> <<>>, op |-> "", amount |-> 0, current_balance |-> NULL, new_balance |-> NULL]

AccIdInputs == {<<>>, <<"a">>, <<"1">>}
Amounts == {0, 400, 500, 600}
Operations == {"Deposit", "Withdraw"}
InitBalances == {500, 1200, 1500}

\* A script run with Submit clicked, up to and including the SELECT and the
\* checks on its result (lines 599-613, 633-634).  The Operation and Amount
\* widgets are read only once the account is found (608-609).
BankSubmit(s, raw, op, amount) ==
    /\ pc[s] = "idle"
    /\ submits < MaxSubmits
    /\   LET acc_id == Upper(raw)
             df_acc == run_query("accounts", "customer_id", acc_id)
             found == acc_id # <<>> /\ df_acc # <<>>
             current_balance == IF found THEN PyFloat(df_acc) ELSE NULL
             goes == Writes(acc_id, df_acc, op, amount)
         IN  /\ loc' = [loc EXCEPT ![s] =
                    [acc_id |-> acc_id,
                     op |-> IF found THEN op ELSE NoLocals.op,
                     amount |-> IF found THEN amount ELSE NoLocals.amount,
                     current_balance |-> current_balance,
                     new_balance |-> IF goes THEN NewBalance(op, current_balance, amount)
                                     ELSE NULL]]
             /\ msg' = [msg EXCEPT ![s] = SubmitReport(acc_id, df_acc, op, amount)]
             /\ pc' = [pc EXCEPT ![s] = IF goes THEN "commit" ELSE "idle"]
    /\ submits' = submits + 1
    /\ UNCHANGED <<db, now, last_transaction, crud_updated, crudVars, filterVars>>

\* The UPDATE, the commit and the session-state record of the same run
\* (lines 616-629, 637-650).  last_updated and the record's timestamp come from
\* two calls of datetime.now(): the clock may have moved on between them.
BankCommit(s) ==
    /\ pc[s] = "commit"
    /\ \E first \in ClockFrom(now) : \E later \in ClockFrom(first) :
         /\ db' = [db EXCEPT !["accounts"] =
                UpdateAccounts(@, loc[s].new_balance, Strftime(first), loc[s].acc_id)]
         /\ last_transaction' = [last_transaction EXCEPT ![s] =
                [type |-> IF loc[s].op = "Deposit" THEN "Deposit" ELSE "Withdrawal",
                 customer_id |-> loc[s].acc_id,
                 amount |-> loc[s].amount,
                 new_balance |-> loc[s].new_balance,
                 timestamp |-> Strftime(later)]]
         /\ now' = later
    /\ crud_updated' = [crud_updated EXCEPT ![s] = TRUE]
    /\ pc' = [pc EXCEPT ![s] = "idle"]
    /\ UNCHANGED <<loc, msg, submits, crudVars, filterVars>>

\* "Clear Transaction History" (lines 667-669): the button is drawn only in a run
\* that found the account and has a record to show.
BankClear(s) ==
    /\ pc[s] = "idle"
    /\ last_transaction[s] # NoTransaction
    /\ \E raw \in AccIdInputs :
         LET df_acc == run_query("accounts", "customer_id", Upper(raw))
         IN  Upper(raw) # <<>> /\ df_acc # <<>> /\ PyFloat(df_acc) # Raised
    /\ last_transaction' = [last_transaction EXCEPT ![s] = NoTransaction]
    /\ UNCHANGED <<db, now, pc, loc, msg, crud_updated, submits, crudVars, filterVars>>

(***************************************************************************)
(* CRUD Operations page.                                                   *)
(***************************************************************************)
TemporalColumns == {"last_updated", "date_opened", "date_closed", "txn_time", "join_date"}

\* `c.lower() in [...]`: the column names of the model are lower case as they stand
IsTemporal(c) == c \in TemporalColumns

pk_col(table) == get_columns(table)[1]

CreateValueUpperAll(c, raw) ==
    IF Strip(raw) # <<>> THEN Text(Upper(Strip(raw))) ELSE (IF IsTemporal(c) THEN NULL ELSE Text(<<>>))
CreateValueNullEmpty(c, raw) ==
    IF Strip(raw) = <<>> THEN NULL
    ELSE Text(IF IsTemporal(c) THEN Strip(raw) ELSE Upper(Strip(raw)))
\* Create: the value bound for column c from the text typed into its field (458-464)
CreateValue(c, raw) ==
    LET user_input == Strip(raw)
    IN  IF IsTemporal(c)
        THEN (IF user_input # <<>> THEN Text(user_input) ELSE NULL)
        ELSE Text(IF user_input # <<>> THEN Upper(user_input) ELSE user_input)

\* Update: the value bound for col_to_update from the text typed (519-524)
UpdateValue(c, raw) ==
    IF IsTemporal(c)
    THEN (IF Strip(raw) # <<>> THEN Text(Strip(raw)) ELSE NULL)
    ELSE Text(IF raw # <<>> THEN Upper(raw) ELSE raw)

\* Read, Update, Delete: `pk_val.upper() if (pk_val and not pk_val.isdigit()) else pk_val`
PkValue(raw) == IF raw # <<>> /\ ~IsDigit(raw) THEN Upper(raw) ELSE raw

\* `cols[1:] if len(cols) > 1 else cols`: what the "Column to update" picker offers
UpdatableColumns(cols) ==
    IF Len(cols) > 1 THEN {cols[i] : i \in 2..Len(cols)} ELSE {cols[i] : i \in 1..Len(cols)}

\* run_query("SELECT * FROM <table> WHERE <pk_col> = ?", [v]) for a str or None
SelectByPk(rows, table, v) ==
    IF v.k = "text" THEN WhereEq(rows, pk_col(table), v.s) ELSE <<>>

\* INSERT INTO <table> (<cols>) VALUES (?, ..., ?): no constraint can reject the row
InsertRow(rows, table, values) ==
    Append(rows, [c \in DOMAIN values |-> Stored(table, c, values[c])])

\* UPDATE <table> SET <col> = ? WHERE <pk_col> = ?
UpdateWhere(rows, table, col, new_val, pk_val) ==
    [i \in 1..Len(rows) |->
        IF SqlEq(rows[i][pk_col(table)], pk_val)
        THEN [rows[i] EXCEPT ![col] = Stored(table, col, new_val)]
        ELSE rows[i]]

\* DELETE FROM <table> WHERE <pk_col> = ?
RECURSIVE DeleteWhereFirst(_, _, _)
DeleteWhereFirst(rows, table, pk_val) ==
    IF rows = <<>> THEN <<>>
    ELSE IF SqlEq(Head(rows)[pk_col(table)], pk_val) THEN Tail(rows)
    ELSE <<Head(rows)>> \o DeleteWhereFirst(Tail(rows), table, pk_val)
RECURSIVE DeleteWhere(_, _, _)
DeleteWhere(rows, table, pk_val) ==
    IF rows = <<>> THEN <<>>
    ELSE (IF SqlEq(Head(rows)[pk_col(table)], pk_val) THEN <<>> ELSE <<Head(rows)>>)
         \o DeleteWhere(Tail(rows), table, pk_val)

MsgInsertFailed == "Insert failed"
MsgUpdateFailed == "Update failed"
MsgDeleteFailed == "Delete failed"

NoCrudResult ==
    [action |-> "None", table |-> "", data |-> <<>>, timestamp |-> <<>>, message |-> ""]

NoRequest ==
    [crud_action |-> "None", crud_table |-> "", pk_val |-> NULL,
     col_to_update |-> "", new_val |-> NULL, form |-> <<>>, values |-> <<>>, df |-> <<>>]

\* what may be typed into a field of the page
TextInputs == {<<>>, <<"a">>, <<" ", "a">>, <<"1">>}
FieldInputs(c) ==
    IF c = "account_balance" THEN {<<>>, <<"1">>}
    ELSE IF c = "last_updated" THEN {<<>>, <<" ", "a">>}
    ELSE TextInputs
\* what may be typed as the "New value" of an Update
NewValueInputs(c) ==
    IF c = "account_balance" THEN {<<>>, <<"1">>, <<" ", "a">>}
    ELSE FieldInputs(c)

\* the ways to fill the Create form of a table
Forms(table) ==
    LET cols == get_columns(table)
        names == {cols[i] : i \in 1..Len(cols)}
    IN  {f \in [names -> TextInputs] : \A c \in names : f[c] \in FieldInputs(c)}

\* Create, with "Insert" clicked (454-481)
CrudCreate(s, crud_table, form, stamp) ==
    LET cols == get_columns(crud_table)
        values == [c \in DOMAIN form |-> CreateValue(c, form[c])]
        after == InsertRow(db[crud_table], crud_table, values)
        pk_val == values[pk_col(crud_table)]
        df_new == SelectByPk(after, crud_table, pk_val)
    IN  /\ pc[s] = "idle"
        /\ crudOps < MaxCrudOps
        /\ Len(db[crud_table]) < MaxRows
        /\ db' = [db EXCEPT ![crud_table] = after]
        /\ crud_updated' = [crud_updated EXCEPT ![s] = TRUE]
        /\ last_crud_result' = [last_crud_result EXCEPT ![s] =
               [action |-> "Insert", table |-> crud_table, data |-> df_new,
                timestamp |-> Strftime(stamp), message |-> ""]]
        /\ req' = [req EXCEPT ![s] =
               [crud_action |-> "Create", crud_table |-> crud_table, pk_val |-> pk_val,
                col_to_update |-> "", new_val |-> NULL, form |-> form, values |-> values,
                df |-> df_new]]
        /\ msg' = [msg EXCEPT ![s] = MsgNone]
        /\ crudOps' = crudOps + 1
        /\ now' = stamp
        /\ UNCHANGED <<bankVars, filterVars>>

\* Read, with "Read" clicked (497-510)
CrudRead(s, crud_table, pk_val_raw) ==
    LET pk_val == PkValue(pk_val_raw)
        df == IF pk_val # <<>> THEN WhereEq(db[crud_table], pk_col(crud_table), pk_val)
              ELSE db[crud_table]
    IN  /\ pc[s] = "idle"
        /\ crudOps < MaxCrudOps
        /\ req' = [req EXCEPT ![s] =
               [crud_action |-> "Read", crud_table |-> crud_table, pk_val |-> Text(pk_val),
                col_to_update |-> "", new_val |-> NULL, form |-> <<>>, values |-> <<>>, df |-> df]]
        /\ msg' = [msg EXCEPT ![s] = MsgNone]
        /\ crudOps' = crudOps + 1
        /\ UNCHANGED <<db, now, crud_updated, last_crud_result, bankVars, filterVars>>

\* Update, with "Update" clicked (512-539)
CrudUpdate(s, crud_table, pk_val_raw, col_to_update, new_val_raw, stamp) ==
    LET pk_val == PkValue(pk_val_raw)
        new_val == UpdateValue(col_to_update, new_val_raw)
        after == UpdateWhere(db[crud_table], crud_table, col_to_update, new_val, pk_val)
        df_updated == WhereEq(after, pk_col(crud_table), pk_val)
    IN  /\ pc[s] = "idle"
        /\ crudOps < MaxCrudOps
        /\ col_to_update \in UpdatableColumns(get_columns(crud_table))
        /\ db' = [db EXCEPT ![crud_table] = after]
        /\ crud_updated' = [crud_updated EXCEPT ![s] = TRUE]
        /\ last_crud_result' = [last_crud_result EXCEPT ![s] =
               [action |-> "Update", table |-> crud_table, data |-> df_updated,
                timestamp |-> Strftime(stamp), message |-> ""]]
        /\ req' = [req EXCEPT ![s] =
               [crud_action |-> "Update", crud_table |-> crud_table, pk_val |-> Text(pk_val),
                col_to_update |-> col_to_update, new_val |-> new_val, form |-> <<>>, values |-> <<>>,
                df |-> df_updated]]
        /\ msg' = [msg EXCEPT ![s] = MsgNone]
        /\ crudOps' = crudOps + 1
        /\ now' = stamp
        /\ UNCHANGED <<bankVars, filterVars>>

\* Delete, with "Delete" clicked (555-575)
CrudDelete(s, crud_table, pk_val_raw, stamp) ==
    LET pk_val == PkValue(pk_val_raw)
        after == DeleteWhere(db[crud_table], crud_table, pk_val)
        df_left == WhereEq(after, pk_col(crud_table), pk_val)
    IN  /\ pc[s] = "idle"
        /\ crudOps < MaxCrudOps
        /\ db' = [db EXCEPT ![crud_table] = after]
        /\ crud_updated' = [crud_updated EXCEPT ![s] = TRUE]
        /\ last_crud_result' = [last_crud_result EXCEPT ![s] =
               [action |-> "Delete", table |-> crud_table, data |-> df_left,
                timestamp |-> Strftime(stamp), message |-> "Row successfully deleted"]]
        /\ req' = [req EXCEPT ![s] =
               [crud_action |-> "Delete", crud_table |-> crud_table, pk_val |-> Text(pk_val),
                col_to_update |-> "", new_val |-> NULL, form |-> <<>>, values |-> <<>>, df |-> df_left]]
        /\ msg' = [msg EXCEPT ![s] = MsgNone]
        /\ crudOps' = crudOps + 1
        /\ now' = stamp
        /\ UNCHANGED <<bankVars, filterVars>>

\* "Clear CRUD Result" (493-495, 551-553, 591-593)
CrudClear(s) ==
    /\ pc[s] = "idle"
    /\ last_crud_result[s] # NoCrudResult
    /\ last_crud_result' = [last_crud_result EXCEPT ![s] = NoCrudResult]
    /\ UNCHANGED <<db, now, msg, crud_updated, req, crudOps, bankVars, filterVars>>

(***************************************************************************)
(* Filter Data page (395-439).  The page builds `query` and `params` from  *)
(* its widgets on every run; "Apply Filters" runs the query.               *)
(***************************************************************************)
\* the characters of the model in ASCII order
Alphabet == <<" ", "%", ".", "0", "1", "2", "3", "4", "5", "6", "7", "8", "9",
              "A", "B", "_", "a", "b", "t">>
CharCode(ch) == CHOOSE i \in 1..Len(Alphabet) : Alphabet[i] = ch

\* memcmp order of two texts (the BINARY collation)
RECURSIVE TextLess(_, _)
TextLess(x, y) ==
    IF y = <<>> THEN FALSE
    ELSE IF x = <<>> THEN TRUE
    ELSE IF Head(x) = Head(y) THEN TextLess(Tail(x), Tail(y))
    ELSE CharCode(Head(x)) < CharCode(Head(y))

\* SQLite's order of two values that are not NULL: a number sorts before any text
SqlLess(x, y) ==
    IF x.k = "real" THEN (IF y.k = "real" THEN x.n < y.n ELSE TRUE)
    ELSE y.k = "text" /\ TextLess(x.s, y.s)
SqlLessEq(x, y) == x = y \/ SqlLess(x, y)

\* a cell as text, as LIKE sees it: a REAL prints with its fraction
SqlText(cell) == IF cell.k = "real" THEN Decimal(cell.n) \o <<".", "0">> ELSE cell.s

\* text LIKE pattern: % is any run of characters, _ any one character, and
\* ASCII letters match without regard to case
RECURSIVE Like(_, _)
Like(text, pattern) ==
    IF pattern = <<>> THEN text = <<>>
    ELSE IF Head(pattern) = "%"
         THEN Like(text, Tail(pattern)) \/ (text # <<>> /\ Like(Tail(text), pattern))
    ELSE /\ text # <<>>
         /\ (Head(pattern) = "_" \/ UpperChar(Head(text)) = UpperChar(Head(pattern)))
         /\ Like(Tail(text), Tail(pattern))

\* the number of `?` in a condition
Arity(op) == IF op = "BETWEEN" THEN 2 ELSE 1

\* one condition of the WHERE clause on a cell, its `?` bound in order; a str
\* parameter takes the column's affinity before it is compared
Holds(table, cell, w, bound) ==
    /\ cell # NULL
    /\ IF w.op = "=" THEN cell = Stored(table, w.c, Text(bound[1]))
       ELSE IF w.op = "LIKE" THEN Like(SqlText(cell), bound[1])
       ELSE /\ SqlLessEq(Stored(table, w.c, Text(bound[1])), cell)
            /\ SqlLessEq(cell, Stored(table, w.c, Text(bound[2])))

\* " AND ".join(wheres), the parameters taken from params by position
RECURSIVE RowMatches(_, _, _, _)
RowMatches(table, row, wheres, params) ==
    IF wheres = <<>> THEN TRUE
    ELSE LET w == Head(wheres)
         IN  /\ Len(params) >= Arity(w.op)
             /\ Holds(table, row[w.c], w, SubSeq(params, 1, Arity(w.op)))
             /\ RowMatches(table, row, Tail(wheres),
                           SubSeq(params, Arity(w.op) + 1, Len(params)))

\* run_query("SELECT * FROM <table> [WHERE ...]", params)
RECURSIVE SelectWhere(_, _, _, _)
SelectWhere(table, rows, wheres, params) ==
    IF rows = <<>> THEN <<>>
    ELSE (IF RowMatches(table, Head(rows), wheres, params) THEN <<Head(rows)>> ELSE <<>>)
         \o SelectWhere(table, Tail(rows), wheres, params)

NoCondition == [wheres |-> <<>>, params |-> <<>>]

ConditionKeepsEmpty(c, f) ==
    IF f.col_type = "equals" THEN [wheres |-> <<[c |-> c, op |-> "="]>>, params |-> <<f.val>>]
    ELSE IF f.col_type = "contains"
         THEN [wheres |-> <<[c |-> c, op |-> "LIKE"]>>, params |-> <<<<"%">> \o f.val \o <<"%">>>>]
    ELSE [wheres |-> <<[c |-> c, op |-> "BETWEEN"]>>, params |-> <<f.min_val, f.max_val>>]
\* what the loop body appends to wheres and params for a selected column (409-424)
Condition(c, f) ==
    IF f.col_type = "equals"
    THEN (IF f.val # <<>>
          THEN [wheres |-> <<[c |-> c, op |-> "="]>>, params |-> <<f.val>>]
          ELSE NoCondition)
    ELSE IF f.col_type = "contains"
    THEN (IF f.val # <<>>
          THEN [wheres |-> <<[c |-> c, op |-> "LIKE"]>>,
                params |-> <<<<"%">> \o f.val \o <<"%">>>>]
          ELSE NoCondition)
    ELSE (IF f.min_val # <<>> /\ f.max_val # <<>>
          THEN [wheres |-> <<[c |-> c, op |-> "BETWEEN"]>>, params |-> <<f.min_val, f.max_val>>]
          ELSE NoCondition)

\* `for c in filter_cols`: wheres and params after the loop (405-424); the
\* columns are taken in the table's order
RECURSIVE BuildQuery(_, _)
BuildQuery(cols, widgets) ==
    IF cols = <<>> THEN NoCondition
    ELSE LET rest == BuildQuery(Tail(cols), widgets)
             this == IF widgets[Head(cols)].selected
                     THEN Condition(Head(cols), widgets[Head(cols)])
                     ELSE NoCondition
         IN  [wheres |-> this.wheres \o rest.wheres, params |-> this.params \o rest.params]

NoFilterRun == [table |-> "", widgets |-> <<>>, wheres |-> <<>>, params |-> <<>>, res |-> <<>>]

\* what may be typed into the filter fields of a column
FilterInputs(c) ==
    IF c = "customer_id" THEN {<<>>, <<"a">>}
    ELSE IF c = "account_balance" THEN {<<>>, <<"1", "5", "0", "0">>}
    ELSE IF c = "last_updated" THEN {<<>>, <<"0">>}
    ELSE {<<>>, <<"a">>, <<"A">>}

\* the widgets of one column: left out of "Columns to filter", or selected with
\* a filter type and the text of the fields that type draws
ColumnWidgets(c) ==
    {[selected |-> FALSE, col_type |-> "equals", val |-> <<>>, min_val |-> <<>>, max_val |-> <<>>]}
    \cup {[selected |-> TRUE, col_type |-> ty, val |-> v, min_val |-> <<>>, max_val |-> <<>>] :
             ty \in {"equals", "contains"}, v \in FilterInputs(c)}
    \cup {[selected |-> TRUE, col_type |-> "range", val |-> <<>>, min_val |-> lo, max_val |-> hi] :
             lo \in FilterInputs(c), hi \in FilterInputs(c)}

AccountsWidgets ==
    {[customer_id |-> f1, account_balance |-> f2, last_updated |-> f3] :
        f1 \in ColumnWidgets("customer_id"), f2 \in ColumnWidgets("account_balance"),
        f3 \in ColumnWidgets("last_updated")}
CodesWidgets == {[code |-> f] : f \in ColumnWidgets("code")}
FilterWidgets(table) == IF table = "accounts" THEN AccountsWidgets ELSE CodesWidgets

\* a run of the page with "Apply Filters" clicked (404-431)
FilterApply(table, widgets) ==
    LET built == BuildQuery(get_columns(table), widgets)
    IN  /\ applies < MaxApplies
        /\ filter_page' = [table |-> table, widgets |-> widgets,
                           wheres |-> built.wheres, params |-> built.params,
                           res |-> SelectWhere(table, db[table], built.wheres, built.params)]
        /\ applies' = applies + 1
        /\ UNCHANGED <<db, now, msg, crud_updated, bankVars, crudVars>>

AccountRow(id, balance) ==
    [customer_id |-> Text(id), account_balance |-> Real(balance), last_updated |-> Text(Strftime(0))]

Init ==
    /\ \E b \in InitBalances :
         db = [t \in Tables |->
                 IF t = "accounts" THEN <<AccountRow(<<"A">>, b), AccountRow(<<"B">>, 2000)>>
                 ELSE <<[code |-> Text(<<"A">>)]>>]
    /\ now = 1
    /\ pc = [s \in Sessions |-> "idle"]
    /\ loc = [s \in Sessions |-> NoLocals]
    /\ msg = [s \in Sessions |-> MsgNone]
    /\ last_transaction = [s \in Sessions |-> NoTransaction]
    /\ crud_updated = [s \in Sessions |-> FALSE]
    /\ last_crud_result = [s \in Sessions |-> NoCrudResult]
    /\ req = [s \in Sessions |-> NoRequest]
    /\ submits = 0
    /\ crudOps = 0
    /\ filter_page = NoFilterRun
    /\ applies = 0

NextBank ==
    \/ \E s \in Sessions, raw \in AccIdInputs, op \in Operations, amount \in Amounts :
          BankSubmit(s, raw, op, amount)
    \/ \E s \in Sessions : BankCommit(s)
    \/ \E s \in Sessions : BankClear(s)

SpecBank == Init /\ [][NextBank]_vars

NextCrud ==
    \/ \E s \in CrudSessions, crud_table \in Tables :
          \E form \in Forms(crud_table), stamp \in ClockFrom(now) :
             CrudCreate(s, crud_table, form, stamp)
    \/ \E s \in CrudSessions, crud_table \in Tables, pk_val_raw \in TextInputs :
          CrudRead(s, crud_table, pk_val_raw)
    \/ \E s \in CrudSessions, crud_table \in Tables, pk_val_raw \in TextInputs :
          \E col_to_update \in UpdatableColumns(get_columns(crud_table)) :
             \E new_val_raw \in NewValueInputs(col_to_update), stamp \in ClockFrom(now) :
                CrudUpdate(s, crud_table, pk_val_raw, col_to_update, new_val_raw, stamp)
    \/ \E s \in CrudSessions, crud_table \in Tables, pk_val_raw \in TextInputs :
          \E stamp \in ClockFrom(now) : CrudDelete(s, crud_table, pk_val_raw, stamp)
    \/ \E s \in CrudSessions : CrudClear(s)

\* the database as loaded, with one balance picked for the account
InitCrud == Init /\ db["accounts"][1]["account_balance"] = Real(1500)

SpecCrud == InitCrud /\ [][NextCrud]_vars

NextFilter ==
    \E table \in Tables : \E widgets \in FilterWidgets(table) : FilterApply(table, widgets)

SpecFilter == InitCrud /\ [][NextFilter]_vars

Next == NextBank \/ NextCrud \/ NextFilter

Spec == Init /\ [][Next]_vars


(***************************************************************************)
(* Properties of the Credit / Debit page.                                  *)
(***************************************************************************)
\* the balances of the accounts rows a customer_id designates
Balances(rows, id) ==
    {rows[i]["account_balance"] : i \in {j \in 1..Len(rows) : SqlEq(rows[j]["customer_id"], id)}}

\* session s's last Submit run wrote its new balance and is over
Succeeded(s) == pc[s] = "idle" /\ loc[s].new_balance # NULL

\* C1: minimum-balance invariant.  Whatever withdrawals came before, accepted or
\* rejected, every row a withdrawal's UPDATE changes is left with a balance that
\* is a number not below 1000.
C1_MinimumBalance ==
    [][\A s \in Sessions :
         (BankCommit(s) /\ loc[s].op = "Withdraw") =>
            \A i \in 1..Len(db'["accounts"]) :
               (\/ db'["accounts"][i] # db["accounts"][i]
                \/ SqlEq(db["accounts"][i]["customer_id"], loc[s].acc_id))
               => /\ db'["accounts"][i]["account_balance"].k = "real"
                  /\ db'["accounts"][i]["account_balance"].n >= MIN_BALANCE]_vars

\* a withdrawal was committed after another Submit, and left the balance at the floor
C1_Witness ==
    \E s \in Sessions :
        /\ Succeeded(s)
        /\ submits = 2
        /\ loc[s].op = "Withdraw"
        /\ Balances(db["accounts"], loc[s].acc_id) = {Real(MIN_BALANCE)}

\* C2: a withdraw that would take the balance read below 1000 is rejected with the
\* insufficient-balance message and never reaches the UPDATE: the run ends with
\* every row (account_balance and last_updated) as it was.
C2_RejectedWithdraw ==
    [][\A s \in Sessions :
         (/\ submits' = submits + 1
          /\ loc'[s].op = "Withdraw"
          /\ loc'[s].amount > 0
          /\ loc'[s].current_balance.k = "real"
          /\ loc'[s].current_balance.n - loc'[s].amount < 1000
          /\ \E raw \in AccIdInputs, op \in Operations :
                BankSubmit(s, raw, op, loc'[s].amount))
         => /\ msg'[s] = MsgInsufficient
            /\ pc'[s] = "idle"
            /\ loc'[s].new_balance = NULL
            /\ db' = db
            /\ last_transaction' = last_transaction]_vars

\* balance 1500, withdraw 600: rejected, and the balance is still 1500
C2_Witness ==
    \E s \in Sessions :
        /\ pc[s] = "idle"
        /\ loc[s].op = "Withdraw"
        /\ loc[s].amount = 600
        /\ loc[s].current_balance = Real(1500)
        /\ msg[s] = MsgInsufficient
        /\ Balances(db["accounts"], loc[s].acc_id) = {Real(1500)}

\* C3: for an existing account and amount > 0 a withdraw goes on to the UPDATE
\* exactly when the balance read minus the amount is at least 1000 (1000 itself
\* included), and the UPDATE leaves both the row and the record's new_balance at
\* the balance read minus the amount.
C3_WithdrawIff ==
    [][\A s \in Sessions :
         /\ (/\ submits' = submits + 1
             /\ loc'[s].op = "Withdraw"
             /\ loc'[s].amount > 0
             /\ loc'[s].current_balance.k = "real"
             /\ \E raw \in AccIdInputs, op \in Operations :
                BankSubmit(s, raw, op, loc'[s].amount))
            => (pc'[s] = "commit" <=> loc'[s].current_balance.n - loc'[s].amount >= 1000)
         /\ (BankCommit(s) /\ loc[s].op = "Withdraw")
            => /\ Balances(db'["accounts"], loc[s].acc_id)
                    = {Real(loc[s].current_balance.n - loc[s].amount)}
               /\ last_transaction'[s].new_balance
                    = Real(loc[s].current_balance.n - loc[s].amount)
               /\ last_transaction'[s].type = "Withdrawal"]_vars

\* balance 1500, withdraw 500: committed, the new balance is exactly 1000
C3_Witness ==
    \E s \in Sessions :
        /\ Succeeded(s)
        /\ loc[s].op = "Withdraw"
        /\ loc[s].amount = 500
        /\ loc[s].current_balance = Real(1500)
        /\ last_transaction[s].new_balance = Real(1000)
        /\ Balances(db["accounts"], loc[s].acc_id) = {Real(1000)}

\* C4: for an existing account and amount > 0 a deposit always goes on to the
\* UPDATE, whatever the balance read, and the UPDATE leaves both the row and the
\* record's new_balance at the balance read plus the amount.
C4_DepositUnconditional ==
    [][\A s \in Sessions :
         /\ (/\ submits' = submits + 1
             /\ loc'[s].op = "Deposit"
             /\ loc'[s].amount > 0
             /\ loc'[s].current_balance.k = "real"
             /\ \E raw \in AccIdInputs, op \in Operations :
                BankSubmit(s, raw, op, loc'[s].amount))
            => pc'[s] = "commit"
         /\ (BankCommit(s) /\ loc[s].op = "Deposit")
            => /\ Balances(db'["accounts"], loc[s].acc_id)
                    = {Real(loc[s].current_balance.n + loc[s].amount)}
               /\ last_transaction'[s].new_balance
                    = Real(loc[s].current_balance.n + loc[s].amount)
               /\ last_transaction'[s].type = "Deposit"]_vars

\* a deposit was committed although it leaves the balance below the 1000 floor
C4_Witness ==
    \E s \in Sessions :
        /\ Succeeded(s)
        /\ loc[s].op = "Deposit"
        /\ loc[s].current_balance = Real(500)
        /\ loc[s].amount = 400
        /\ last_transaction[s].new_balance = Real(900)
        /\ Balances(db["accounts"], loc[s].acc_id) = {Real(900)}

\* C5: a deposit or withdraw with amount <= 0, or naming a customer_id no accounts
\* row has, ends without reaching the UPDATE: no row changes and no transaction
\* record is produced; the run reports the amount error, or "No such account."
\* for a non-empty customer_id.
C5_FailedPrecondition ==
    [][\A s \in Sessions :
         (/\ submits' = submits + 1
          /\ \/ loc'[s].amount <= 0
             \/ Balances(db["accounts"], loc'[s].acc_id) = {}
          /\ \E raw \in AccIdInputs, op \in Operations :
                BankSubmit(s, raw, op, loc'[s].amount))
         => /\ pc'[s] = "idle"
            /\ loc'[s].new_balance = NULL
            /\ db' = db
            /\ last_transaction' = last_transaction
            /\ msg'[s] = IF loc'[s].acc_id = <<>> THEN MsgNone
                         ELSE IF Balances(db["accounts"], loc'[s].acc_id) = {} THEN MsgNoAccount
                         ELSE MsgAmount]_vars

\* one session's Submit with amount 0 and the other's for an unknown account are both over
C5_Witness ==
    \E s, t \in Sessions :
        /\ pc[s] = "idle" /\ pc[t] = "idle"
        /\ msg[s] = MsgAmount /\ loc[s].amount = 0 /\ loc[s].acc_id = <<"A">>
        /\ msg[t] = MsgNoAccount /\ loc[t].acc_id = <<"1">>
        /\ last_transaction[s] = NoTransaction /\ last_transaction[t] = NoTransaction

\* both sessions have each processed one Submit of Withdraw 400 on account A,
\* the first of them against a balance of 1200
C6_Scenario ==
    /\ submits = 2
    /\ \A s \in Sessions :
          /\ pc[s] = "idle"
          /\ loc[s].acc_id = <<"A">>
          /\ loc[s].op = "Withdraw"
          /\ loc[s].amount = 400
    /\ \E s \in Sessions : loc[s].current_balance = Real(1200)

\* C6, as claimed: of two concurrent withdraw(A, 400) against balance 1200 exactly
\* one succeeds, leaving 800, and the other fails with the insufficient-balance error.
C6_ExactlyOneSucceeds ==
    C6_Scenario =>
        /\ \E s \in Sessions :
              /\ Succeeded(s)
              /\ \A t \in Sessions \ {s} : ~Succeeded(t) /\ msg[t] = MsgInsufficient
        /\ Balances(db["accounts"], <<"A">>) = {Real(800)}

\* C6, amended: of two concurrent withdraw(A, 400) against balance 1200 both are
\* rejected with the insufficient-balance error in every interleaving (1200 - 400
\* is below the floor), and the balance stays 1200.
C6_BothRejected ==
    C6_Scenario =>
        /\ \A s \in Sessions :
              /\ ~Succeeded(s)
              /\ msg[s] = MsgInsufficient
              /\ last_transaction[s] = NoTransaction
        /\ Balances(db["accounts"], <<"A">>) = {Real(1200)}

\* both withdrawals are over, and both had read the balance of 1200
C6_Witness ==
    /\ C6_Scenario
    /\ \A s \in Sessions : loc[s].current_balance = Real(1200)

\* session s is about to write a withdrawal computed from the balance that t's
\* withdrawal, already written, was computed from as well
RaceCommit(s, t) ==
    /\ s # t
    /\ BankCommit(s)
    /\ Succeeded(t)
    /\ loc[s].op = "Withdraw" /\ loc[t].op = "Withdraw"
    /\ loc[s].acc_id = loc[t].acc_id
    /\ loc[s].current_balance = loc[t].current_balance
    /\ loc[s].current_balance.k = "real"
    /\ loc[s].current_balance.n >= MIN_BALANCE
    /\ Balances(db["accounts"], loc[t].acc_id) = {loc[t].new_balance}

\* C7, as claimed: when both withdrawals read the same stale balance, pass the
\* check and write, the committed balance ends lower than 1000.
C7_RaceBreaksFloor ==
    [][\A s, t \in Sessions :
         RaceCommit(s, t) =>
            \E b \in Balances(db'["accounts"], loc[s].acc_id) : b.n < MIN_BALANCE]_vars

\* C7, amended: when both withdrawals read the same stale balance, pass the check
\* and write, the second write replaces the first (one withdrawal is lost): the
\* committed balance ends at the balance read minus the last writer's amount,
\* which is above what the two withdrawals together leave and never below 1000.
C7_RaceLosesUpdate ==
    [][\A s, t \in Sessions :
         RaceCommit(s, t) =>
            /\ Balances(db'["accounts"], loc[s].acc_id)
                 = {Real(loc[s].current_balance.n - loc[s].amount)}
            /\ \A b \in Balances(db'["accounts"], loc[s].acc_id) :
                 /\ b.n >= MIN_BALANCE
                 /\ b.n > loc[s].current_balance.n - loc[s].amount - loc[t].amount]_vars

\* both withdrawals read 1500 and wrote: 400 then 500, and the balance is 1000
C7_Witness ==
    \E s, t \in Sessions :
        /\ s # t
        /\ Succeeded(s) /\ Succeeded(t)
        /\ loc[s].op = "Withdraw" /\ loc[t].op = "Withdraw"
        /\ loc[s].acc_id = <<"A">> /\ loc[t].acc_id = <<"A">>
        /\ loc[s].current_balance = Real(1500) /\ loc[t].current_balance = Real(1500)
        /\ loc[t].amount = 400 /\ loc[s].amount = 500
        /\ Balances(db["accounts"], <<"A">>) = {Real(1000)}


\* C17: money conservation.  Every deposit or withdrawal that is committed (and
\* so reported successful) moves the committed balance of its account by its own
\* amount, whatever the other session did in between: the committed balance is
\* then always the initial one plus the successful deposits minus the successful
\* withdrawals.
C17_MoneyConservation ==
    [][\A s \in Sessions :
         BankCommit(s) =>
            Balances(db'["accounts"], loc[s].acc_id) =
                {NewBalance(loc[s].op, b, loc[s].amount) :
                    b \in Balances(db["accounts"], loc[s].acc_id)}]_vars

\* C18: no stale success.  After a Submit that is rejected the session holds no
\* transaction record (nothing is shown under "Transaction Successful"), and
\* whenever a run has drawn the page for an account and is over, the record the
\* session holds, if any, names that account.
C18_NoStaleSuccess ==
    [][\A s \in Sessions :
         /\ \A raw \in AccIdInputs, op \in Operations, amount \in Amounts :
               (/\ BankSubmit(s, raw, op, amount)
                /\ msg'[s] \in {MsgAmount, MsgInsufficient})
                  => last_transaction'[s] = NoTransaction
         /\ (/\ pc'[s] = "idle"
             /\ loc'[s].current_balance # NULL
             /\ last_transaction'[s] # NoTransaction)
               => last_transaction'[s].customer_id = loc'[s].acc_id]_vars


(***************************************************************************)
(* Properties of the CRUD page.                                            *)
(***************************************************************************)
\* C8: identity immutability.  For every table, an Update that names the table's
\* first column as the column to change fails with the update error and changes
\* no row.
C8_IdentityImmutable ==
    [][\A s \in CrudSessions, crud_table \in Tables :
         \A pk_val_raw \in TextInputs, new_val_raw \in TextInputs :
            (/\ crudOps' = crudOps + 1
             /\ req'[s].crud_action = "Update"
             /\ req'[s].col_to_update = pk_col(crud_table)
             /\ CrudUpdate(s, crud_table, pk_val_raw, pk_col(crud_table), new_val_raw, now'))
            => /\ db' = db
               /\ msg'[s] = MsgUpdateFailed]_vars

\* no two rows of a table hold the same value in the table's first column
UniqueIdentities(rows, table) ==
    \A i, j \in 1..Len(rows) :
        i # j => rows[i][pk_col(table)] # rows[j][pk_col(table)]

\* C9: identity uniqueness.  The tables start with pairwise distinct identity
\* values, and after any sequence of Create, Update and Delete no two rows of a
\* table have the same identity value.
C9_IdentityUnique == \A table \in Tables : UniqueIdentities(db[table], table)

\* C10: idempotent delete.  A Delete always ends as a success; when its identity
\* matches no row the table is left as it was; and after any Delete no row has
\* that identity, so that the same Delete once more removes nothing and leaves
\* the table equal to what the first left.
C10_IdempotentDelete ==
    [][\A s \in CrudSessions, crud_table \in Tables :
         (/\ crudOps' = crudOps + 1
          /\ req'[s].crud_action = "Delete"
          /\ req'[s].crud_table = crud_table) =>
            LET pk_val == req'[s].pk_val.s
            IN  /\ msg'[s] = MsgNone
                /\ last_crud_result'[s].action = "Delete"
                /\ last_crud_result'[s].data = <<>>
                /\ (WhereEq(db[crud_table], pk_col(crud_table), pk_val) = <<>> => db' = db)
                /\ WhereEq(db'[crud_table], pk_col(crud_table), pk_val) = <<>>
                /\ DeleteWhere(db'[crud_table], crud_table, pk_val) = db'[crud_table]
                /\ \A other \in Tables \ {crud_table} : db'[other] = db[other]]_vars

\* the one button run so far was a Delete of identity "1", which no row of codes
\* has: it is shown as a success and codes still holds its row
C10_Witness ==
    \E s \in CrudSessions :
        /\ crudOps = 1
        /\ req[s].crud_action = "Delete"
        /\ req[s].crud_table = "codes"
        /\ req[s].pk_val = Text(<<"1">>)
        /\ last_crud_result[s].action = "Delete"
        /\ msg[s] = MsgNone
        /\ db["codes"] = <<[code |-> Text(<<"A">>)]>>

\* C11: round trip.  A Read of the identity a Create has just inserted (the
\* identity as Create normalized it, in the same table, with nothing in between)
\* returns one row, and that row is the mapping Create bound: each value as
\* upper-cased for a non-temporal column, and as the store keeps it.
C11_RoundTrip ==
    [][\A s \in CrudSessions, crud_table \in Tables :
         (/\ crudOps' = crudOps + 1
          /\ req[s].crud_action = "Create"
          /\ req[s].crud_table = crud_table
          /\ req'[s].crud_action = "Read"
          /\ req'[s].crud_table = crud_table
          /\ req[s].pk_val.k = "text"
          /\ CrudRead(s, crud_table, req[s].pk_val.s)) =>
            req'[s].df = <<[c \in DOMAIN req[s].values |->
                              Stored(crud_table, c, req[s].values[c])]>>]_vars

\* the row an INSERT has just appended to a table
LastRow(rows) == rows[Len(rows)]

\* C12: case normalization on insert.  Create adds one row; in a column outside
\* the temporal set the text typed is stored upper-cased (and trimmed: a number
\* in a numeric column is stored as that number); in a column of the temporal
\* set it is stored as typed apart from trimming, in its own case, or as null
\* when empty.
C12_CaseNormalization ==
    [][\A s \in CrudSessions, crud_table \in Tables :
         (/\ crudOps' = crudOps + 1
          /\ req'[s].crud_action = "Create"
          /\ req'[s].crud_table = crud_table) =>
            /\ Len(db'[crud_table]) = Len(db[crud_table]) + 1
            /\ \A c \in DOMAIN req'[s].form :
                 LET cell == LastRow(db'[crud_table])[c]
                     typed == Strip(req'[s].form[c])
                 IN  IF c \in TemporalColumns
                     THEN cell = (IF typed = <<>> THEN NULL ELSE Text(typed))
                     ELSE \/ cell = Text(Upper(typed))
                          \/ /\ Affinity(crud_table, c) = "REAL"
                             /\ IsDigit(typed)
                             /\ cell = Real(DigitsValue(typed))]_vars

\* a Create on accounts typed " a" as customer_id and " a" as last_updated: the
\* row holds "A" as its identity and "a" as its last_updated
C12_Witness ==
    \E s \in CrudSessions :
        /\ crudOps = 1
        /\ req[s].crud_action = "Create"
        /\ req[s].crud_table = "accounts"
        /\ req[s].form["customer_id"] = <<" ", "a">>
        /\ req[s].form["last_updated"] = <<" ", "a">>
        /\ Len(db["accounts"]) = 3
        /\ LastRow(db["accounts"])["customer_id"] = Text(<<"A">>)
        /\ LastRow(db["accounts"])["last_updated"] = Text(<<"a">>)

\* C13 as claimed: every column whose field is left empty is null in the row
\* Create inserts, whatever the column.
C13_EmptyBoundNull ==
    [][\A s \in CrudSessions, crud_table \in Tables :
         (/\ crudOps' = crudOps + 1
          /\ req'[s].crud_action = "Create"
          /\ req'[s].crud_table = crud_table) =>
            \A c \in DOMAIN req'[s].form :
                req'[s].form[c] = <<>> => LastRow(db'[crud_table])[c] = NULL]_vars

\* C13, amended: a column whose field is left empty (or holds blanks only) is
\* null in the inserted row when it is of the temporal set, and the empty
\* string when it is not.
C13_EmptyBinding ==
    [][\A s \in CrudSessions, crud_table \in Tables :
         (/\ crudOps' = crudOps + 1
          /\ req'[s].crud_action = "Create"
          /\ req'[s].crud_table = crud_table) =>
            \A c \in DOMAIN req'[s].form :
                Strip(req'[s].form[c]) = <<>> =>
                    LastRow(db'[crud_table])[c] =
                        (IF c \in TemporalColumns THEN NULL ELSE Text(<<>>))]_vars

\* a Create on accounts with every field left empty: the row holds two empty
\* strings and, as last_updated, null
C13_Witness ==
    \E s \in CrudSessions :
        /\ crudOps = 1
        /\ req[s].crud_action = "Create"
        /\ req[s].crud_table = "accounts"
        /\ \A c \in DOMAIN req[s].form : req[s].form[c] = <<>>
        /\ Len(db["accounts"]) = 3
        /\ LastRow(db["accounts"]) =
              [customer_id |-> Text(<<>>), account_balance |-> Text(<<>>), last_updated |-> NULL]

\* C14: update normalizes as insert does.  Whatever is typed as the new value,
\* every row an Update designates then holds, in the column updated, the value
\* a Create would store in that column for the same text.
C14_UpdateAsInsert ==
    [][\A s \in CrudSessions, crud_table \in Tables :
         (/\ crudOps' = crudOps + 1
          /\ req'[s].crud_action = "Update"
          /\ req'[s].crud_table = crud_table) =>
            \A pk_val_raw \in TextInputs, new_val_raw \in NewValueInputs(req'[s].col_to_update) :
                CrudUpdate(s, crud_table, pk_val_raw, req'[s].col_to_update, new_val_raw, now') =>
                  \A i \in 1..Len(db[crud_table]) :
                      SqlEq(db[crud_table][i][pk_col(crud_table)], PkValue(pk_val_raw)) =>
                          db'[crud_table][i][req'[s].col_to_update] =
                              Stored(crud_table, req'[s].col_to_update,
                                     CreateValue(req'[s].col_to_update, new_val_raw))]_vars

\* C15: last_updated follows the balance.  Whenever a step leaves a row of
\* accounts in place with another account_balance, the row's last_updated is
\* then the text of a clock reading taken during that step.
C15_LastUpdatedSet ==
    [][\A i \in 1..Len(db["accounts"]) :
         (/\ Len(db'["accounts"]) = Len(db["accounts"])
          /\ db'["accounts"][i]["customer_id"] = db["accounts"][i]["customer_id"]
          /\ db'["accounts"][i]["account_balance"] # db["accounts"][i]["account_balance"]) =>
            \E t \in now..now' :
                db'["accounts"][i]["last_updated"] = Text(Strftime(t))]_vars


(***************************************************************************)
(* Properties of the Filter Data page.                                     *)
(***************************************************************************)
\* a column's filter counts: the column is selected and its value is not empty,
\* or, for a range, neither endpoint is
Effective(f) ==
    /\ f.selected
    /\ IF f.col_type = "range" THEN f.min_val # <<>> /\ f.max_val # <<>> ELSE f.val # <<>>

\* v occurs in text, ASCII letters compared without regard to case
ContainsNoCase(text, v) ==
    \E i \in 1..(Len(text) - Len(v) + 1) : Upper(SubSeq(text, i, i + Len(v) - 1)) = Upper(v)

\* a cell satisfies a column's filter: equal to the value, containing it, or
\* between the two endpoints, both included; a null cell satisfies none
Satisfies(table, c, cell, f) ==
    /\ cell # NULL
    /\ IF f.col_type = "equals" THEN cell = Stored(table, c, Text(f.val))
       ELSE IF f.col_type = "contains" THEN ContainsNoCase(SqlText(cell), f.val)
       ELSE /\ ~SqlLess(cell, Stored(table, c, Text(f.min_val)))
            /\ ~SqlLess(Stored(table, c, Text(f.max_val)), cell)

\* the rows, in the table's order, that satisfy every filter that counts
RECURSIVE Satisfying(_, _, _)
Satisfying(table, rows, widgets) ==
    IF rows = <<>> THEN <<>>
    ELSE (IF \A c \in DOMAIN widgets :
                Effective(widgets[c]) => Satisfies(table, c, Head(rows)[c], widgets[c])
          THEN <<Head(rows)>> ELSE <<>>)
         \o Satisfying(table, Tail(rows), widgets)

====
